---- MODULE Spec2Model ----
(***************************************************************************)
(* GitDoku (badge/apps/sudoku/__init__.py): the puzzle engine (PRNG,       *)
(* constraint solver, generator, carving) and the session state machine    *)
(* (title / play / pause / gameover) with its score ledger.                *)
(*                                                                         *)
(* Grids are functions [0..8 -> [0..8 -> 0..9]], indexed board[row][col]   *)
(* as in the source.  The PRNG is the source's fallback path (the linear   *)
(* congruential generator of _getrandbits, taken when urandom has no       *)
(* getrandbits), seeded from the boot tick; 31-bit arithmetic is done in   *)
(* 15-bit limbs because TLC's integers are 32 bits wide.                 *)
(***************************************************************************)
EXTENDS Integers, Sequences, FiniteSets, TLC

\* ------------------------------------------------------------- bounds
\* The boot tick (io.ticks when the module is imported) ranges over 0..MaxBootTick.
MaxBootTick == 1
\* The free player takes at most MaxFrames frames.
MaxFrames == 3
\* io.ticks between two frames of the solving player.
FrameMs == 400
\* The records a loaded ledger holds: one no session here beats, one every session beats.
FastRecord == 10
SlowRecord == 900
\* io.ticks between two frames when the badge is left alone for twelve days.
LongWait == 1000000000
\* A new game on its own starts from the PRNG state of a boot tick in 0..MaxGenTick.
MaxGenTick == 7
\* The solver on its own is given grids with at most MaxBlanks chosen cells blanked.
MaxBlanks == 3
\* The solver's search is given 8^MaxSolveDepth machine steps.
MaxSolveDepth == 5

\* ------------------------------------------------------------- PRNG
Idx == 0..8
\* [[0]*9 for _ in range(9)] and list(range(1, 10))
Grid0 == [r \in Idx |-> [c \in Idx |-> 0]]
Nums0 == [k \in 0..8 |-> k + 1]

\* 2^15, 2^16, 2^30 and 2^31-1: 0x7fffffff and the limbs its products are taken in
P15 == 32768
P16 == 65536
P30 == 1073741824
M31 == 2147483647

\* x & 0x7fffffff for 0 <= x
Mask31(x) == (x % P30) + P30 * ((x \div P30) % 2)

\* (x + y) & 0x7fffffff for x, y in 0..2^31-1, without leaving 32 bits
AddMod31(x, y) == IF x > M31 - y THEN (x - (M31 - y)) - 1 ELSE x + y

\* (a * b) & 0x7fffffff for a, b in 0..2^31-1, in 15-bit limbs
MulMod31(a, b) ==
    LET a0 == a % P15
        a1 == (a \div P15) % P15
        a2 == a \div P30
        b0 == b % P15
        b1 == (b \div P15) % P15
        b2 == b \div P30
        t0 == a0 * b0
        t1 == (((a1 * b0) % P16) + ((a0 * b1) % P16)) % P16
        t2 == ((a2 * b0) + (a1 * b1) + (a0 * b2)) % 2
    IN  AddMod31(AddMod31(t0, t1 * P15), t2 * P30)

RECURSIVE Xor(_, _)
Xor(a, b) == IF a = 0 /\ b = 0 THEN 0
             ELSE (((a % 2) + (b % 2)) % 2) + 2 * Xor(a \div 2, b \div 2)

\* _rng_state = {"s": (io.ticks & 0x7fffffff) ^ 0x1f123bb5}
RngSeed(t) == Xor(Mask31(t), 521288629)

\* s = (1103515245 * s + 12345) & 0x7fffffff
LcgNext(s) == AddMod31(MulMod31(1103515245, s), 12345)

Min(a, b) == IF a < b THEN a ELSE b

\* The element of a one-element set; The({e(x) : x \in {v}}) evaluates v once
\* and names it x in e.
The(S) == CHOOSE x \in S : TRUE

RECURSIVE Pow2(_)
Pow2(n) == IF n = 0 THEN 1 ELSE 2 * Pow2(n - 1)

\* _getrandbits(n), fallback path: [s |-> new state, r |-> s & ((1 << min(n, 24)) - 1)]
_getrandbits(s, n) ==
    The({[s |-> s2, r |-> s2 % Pow2(Min(n, 24))] : s2 \in {LcgNext(s)}})

\* _randint(a, b): [s |-> new state, r |-> a + (r % span)]
_randint(s, a, b) ==
    The({[s |-> g.s, r |-> a + (g.r % (b - a + 1))] : g \in {_getrandbits(s, 30)}})

\* ------------------------------------------------------------- solver
\* (a variant without the check of the 3x3 box)
_is_valid_no_box(board, row, col, num) ==
    /\ \A x \in Idx : ~(x # col /\ board[row][x] = num)
    /\ \A x \in Idx : ~(x # row /\ board[x][col] = num)

\* _is_valid(board, row, col, num)
_is_valid(board, row, col, num) ==
    /\ \A x \in Idx : ~(x # col /\ board[row][x] = num)
    /\ \A x \in Idx : ~(x # row /\ board[x][col] = num)
    /\ LET start_row == 3 * (row \div 3)
           start_col == 3 * (col \div 3)
       IN  \A i \in 0..2 : \A j \in 0..2 :
              LET r == start_row + i
                  c == start_col + j
              IN  ~((r # row \/ c # col) /\ board[r][c] = num)

\* board[row][col] = num
SetCell(board, row, col, num) == [board EXCEPT ![row] = [board[row] EXCEPT ![col] = num]]

\* The scan "for row in range(9): for col in range(9): if board[row][col] == 0":
\* the first empty cell in row-major order, as 9 * row + col (81: there is none).
FirstEmpty(board) ==
    LET E == {k \in 0..80 : board[k \div 9][k % 9] = 0}
    IN  IF E = {} THEN 81 ELSE CHOOSE k \in E : \A m \in E : k <= m

\* (a variant whose loop is "for num in range(1, 9)")
NextValid_short(board, row, col, from) ==
    LET V == {n \in from..8 : _is_valid(board, row, col, n)}
    IN  IF V = {} THEN 10 ELSE CHOOSE n \in V : \A m \in V : n <= m

\* The next num of "for num in range(1, 10)", from `from` on, that passes
\* "if _is_valid(board, row, col, num)" (10: the loop is exhausted).
NextValid(board, row, col, from) ==
    LET V == {n \in from..9 : _is_valid(board, row, col, n)}
    IN  IF V = {} THEN 10 ELSE CHOOSE n \in V : \A m \in V : n <= m

(***************************************************************************)
(* _solve_sudoku is recursive and mutates the board in place.  It is run   *)
(* here as the machine the interpreter runs: `stack` holds one frame       *)
(* <<cell, num>> per active call (the cell it found empty and the num its  *)
(* for-loop is at), `mode` is where control is:                            *)
(*   "call"  entering _solve_sudoku(board)                                 *)
(*   "loop"  at the head of "for num in range(1, 10)" of the top frame     *)
(*   "retT"  a call has just returned True to the top frame                *)
(*   "retF"  a call has just returned False to the top frame               *)
(*   "done"  the outermost call has returned `ok`                          *)
(***************************************************************************)
SolveStart(board) == [mode |-> "call", board |-> board, stack |-> <<>>, ok |-> FALSE]

SolveStep(m) ==
    LET depth == Len(m.stack)
        top == m.stack[depth]
        row == top[1] \div 9
        col == top[1] % 9
    IN  CASE m.mode = "call" ->
               LET k == FirstEmpty(m.board)
               IN  IF k = 81
                   THEN \* line 119: return True
                        IF depth = 0 THEN [m EXCEPT !.mode = "done", !.ok = TRUE]
                        ELSE [m EXCEPT !.mode = "retT"]
                   ELSE [m EXCEPT !.mode = "loop", !.stack = Append(m.stack, <<k, 1>>)]
          [] m.mode = "loop" ->
               LET num == NextValid(m.board, row, col, top[2])
               IN  IF num = 10
                   THEN \* line 118: return False
                        IF depth = 1
                        THEN [m EXCEPT !.mode = "done", !.ok = FALSE, !.stack = <<>>]
                        ELSE [m EXCEPT !.mode = "retF", !.stack = SubSeq(m.stack, 1, depth - 1)]
                   ELSE \* lines 114-115: board[row][col] = num; _solve_sudoku(board)
                        [m EXCEPT !.mode = "call",
                                  !.board = SetCell(m.board, row, col, num),
                                  !.stack[depth] = <<top[1], num>>]
          [] m.mode = "retT" ->
               \* line 116: return True
               IF depth = 1
               THEN [m EXCEPT !.mode = "done", !.ok = TRUE, !.stack = <<>>]
               ELSE [m EXCEPT !.stack = SubSeq(m.stack, 1, depth - 1)]
          [] m.mode = "retF" ->
               \* line 117: board[row][col] = 0, then the next num
               [m EXCEPT !.mode = "loop",
                         !.board = SetCell(m.board, row, col, 0),
                         !.stack[depth] = <<top[1], top[2] + 1>>]
          [] OTHER -> m

\* 8^k steps of the machine (fewer when it is done).  The tuple is evaluated
\* left to right, so each run starts from the finished value of the one before.
RECURSIVE SolveRun(_, _)
SolveRun(m, k) ==
    IF m.mode = "done" THEN m
    ELSE IF k = 0 THEN SolveStep(m)
    ELSE LET m1 == SolveRun(m, k - 1)
             m2 == SolveRun(m1, k - 1)
             m3 == SolveRun(m2, k - 1)
             m4 == SolveRun(m3, k - 1)
             m5 == SolveRun(m4, k - 1)
             m6 == SolveRun(m5, k - 1)
             m7 == SolveRun(m6, k - 1)
             m8 == SolveRun(m7, k - 1)
         IN  <<m1, m2, m3, m4, m5, m6, m7, m8>>[8]

\* _solve_sudoku(board): [ok |-> the return value, board |-> the board as left]
\* (mode # "done": the search did not end within 8^MaxSolveDepth steps)
_solve_sudoku(board) == SolveRun(SolveStart(board), MaxSolveDepth)

\* ------------------------------------------------------------- generator
\* nums[i], nums[j] = nums[j], nums[i]
Swap(nums, i, j) == [nums EXCEPT ![i] = nums[j], ![j] = nums[i]]

\* The Fisher-Yates loop "for i in range(8, 0, -1)" on sh = [s, nums, i]:
\* j = _randint(0, i); nums[i], nums[j] = nums[j], nums[i]
RECURSIVE Shuffle(_)
Shuffle(sh) ==
    IF sh.i = 0 THEN sh
    ELSE The({Shuffle([s |-> d.s, nums |-> Swap(sh.nums, sh.i, d.r), i |-> sh.i - 1]) :
                 d \in {_randint(sh.s, 0, sh.i)}})

\* The inner loops of the seeding: board[box + i][box + j] = nums[idx]; idx += 1
FillBox(board, box, nums) ==
    [board EXCEPT
       ![box]     = [@ EXCEPT ![box] = nums[0], ![box + 1] = nums[1], ![box + 2] = nums[2]],
       ![box + 1] = [@ EXCEPT ![box] = nums[3], ![box + 1] = nums[4], ![box + 2] = nums[5]],
       ![box + 2] = [@ EXCEPT ![box] = nums[6], ![box + 1] = nums[7], ![box + 2] = nums[8]]]

\* One pass of "for box in range(0, 9, 3)" on g = [s, board].
SeedBox(g, box) ==
    The({[s |-> sh.s, board |-> FillBox(g.board, box, sh.nums)] :
            sh \in {Shuffle([s |-> g.s, nums |-> Nums0, i |-> 8])}})

\* _generate_full_board(): [s |-> the PRNG state after it, board |-> the board
\* returned, done |-> the solver's search ended within its step bound].
RECURSIVE _generate_full_board(_)
_generate_full_board(s) ==
    The({The({IF res.mode # "done" THEN [s |-> seeded.s, board |-> res.board, done |-> FALSE]
              ELSE IF ~res.ok THEN _generate_full_board(seeded.s)
              ELSE [s |-> seeded.s, board |-> res.board, done |-> TRUE] :
                 res \in {_solve_sudoku(seeded.board)}}) :
            seeded \in {SeedBox(SeedBox(SeedBox([s |-> s, board |-> Grid0], 0), 3), 6)}})

\* _validate_board(board): every filled cell, cleared, accepts its own value
\* again; the cell is put back on both paths (lines 162 and 164).
_validate_board(board) ==
    \A k \in 0..80 :
        LET row == k \div 9
            col == k % 9
            num == board[row][col]
        IN  num # 0 => _is_valid(SetCell(board, row, col, 0), row, col, num)

\* remove_count = [40, 50, 60][difficulty]
RemoveCount == <<40, 50, 60>>

\* cells = [(r, c) for r in range(9) for c in range(9)], a cell written 9 * r + c
AllCells == [i \in 1..81 |-> i - 1]

\* (a variant that reads the element and leaves it in the list)
Pop_keeps(cells, idx) == cells

\* cells.pop(idx): the list without its element at (0-based) idx
Pop(cells, idx) == SubSeq(cells, 1, idx) \o SubSeq(cells, idx + 2, Len(cells))

\* _remove_numbers(board, difficulty), one pass of "for _ in range(remove_count)"
\* per step, on m = [s, board, cells, n (passes left)].
CarveStart(s, board, difficulty) ==
    [s |-> s, board |-> board, cells |-> AllCells, n |-> RemoveCount[difficulty + 1]]

CarveDone(m) == m.n = 0 \/ m.cells = <<>>

\* lines 148-150 with the draw d = [s, r] of line 148:
\* r, c = cells.pop(idx); board[r][c] = 0
CarveWith(m, d) ==
    [s |-> d.s,
     board |-> SetCell(m.board, m.cells[d.r + 1] \div 9, m.cells[d.r + 1] % 9, 0),
     cells |-> Pop(m.cells, d.r),
     n |-> m.n - 1]

CarveStep(m) == The({CarveWith(m, d) : d \in {_randint(m.s, 0, Len(m.cells) - 1)}})

\* 8^k passes (fewer when the loop ends), evaluated left to right
RECURSIVE CarveRun(_, _)
CarveRun(m, k) ==
    IF CarveDone(m) THEN m
    ELSE IF k = 0 THEN CarveStep(m)
    ELSE LET m1 == CarveRun(m, k - 1)
             m2 == CarveRun(m1, k - 1)
             m3 == CarveRun(m2, k - 1)
             m4 == CarveRun(m3, k - 1)
             m5 == CarveRun(m4, k - 1)
             m6 == CarveRun(m5, k - 1)
             m7 == CarveRun(m6, k - 1)
             m8 == CarveRun(m7, k - 1)
         IN  <<m1, m2, m3, m4, m5, m6, m7, m8>>[8]

\* 8^2 = 64 >= 60 passes
_remove_numbers(s, board, difficulty) == CarveRun(CarveStart(s, board, difficulty), 2)

\* (a variant with the test of the mask inverted)
GivenOf_inverted(board) == [r \in Idx |-> [c \in Idx |-> board[r][c] = 0]]

\* given = [[board[r][c] != 0 for c in range(9)] for r in range(9)]
GivenOf(board) == [r \in Idx |-> [c \in Idx |-> board[r][c] # 0]]

\* ------------------------------------------------------------- session
\* None, and the "no record" sentinel of the score ledger
None == <<>>
Sentinel == 999999

\* Handlers are operators on a world w: the state dict, the PRNG state
\* (_rng_state["s"]), the toast (_toast_msg) and the clock (io.ticks).  Two
\* fields are bookkeeping: `op`, the branch the handler took, and `in_bound`,
\* FALSE when the solver's search did not end within its step bound.

\* state = {...} (lines 65-79), with the ledger as loaded (lines 82-87);
\* hiscores[d] is written hiscores[d + 1]: the source's lists are 0-based.
BootWorld(tick, loaded) ==
    [state |-> [screen |-> "title", difficulty |-> 0,
                board |-> None, solution |-> None, given |-> None,
                cursor_x |-> 0, cursor_y |-> 0, mistakes |-> 0,
                time |-> 0, start_time |-> 0, hiscores |-> loaded,
                last_btn |-> 0, btn_delay |-> 200],
     rng |-> RngSeed(tick),
     toast |-> [t |-> 0, txt |-> ""],
     ticks |-> tick,
     op |-> "boot",
     in_bound |-> TRUE]

\* _new_game()
RECURSIVE _new_game(_)
_new_game(w) ==
    The({IF ~gen.done THEN [w EXCEPT !.in_bound = FALSE, !.rng = gen.s]
         ELSE IF ~_validate_board(gen.board) THEN _new_game([w EXCEPT !.rng = gen.s])
         ELSE The({[w EXCEPT !.rng = carved.s,
                             !.state.board = carved.board,
                             !.state.solution = gen.board,
                             !.state.given = GivenOf(carved.board),
                             !.state.cursor_x = 0,
                             !.state.cursor_y = 0,
                             !.state.mistakes = 0,
                             !.state.start_time = w.ticks,
                             !.state.time = 0] :
                     carved \in {_remove_numbers(gen.s, gen.board, w.state.difficulty)}}) :
            gen \in {_generate_full_board(w.rng)}})

\* (a variant whose row loop stops one row early)
_is_complete_short(st) == \A r \in 0..7 : \A c \in Idx : st.board[r][c] = st.solution[r][c]

\* _is_complete()
_is_complete(st) == \A r \in Idx : \A c \in Idx : st.board[r][c] = st.solution[r][c]

\* _toast(s)
_toast(w, txt) == [w EXCEPT !.toast = [t |-> w.ticks, txt |-> txt]]

\* _draw_toast(): drops the message once it is older than 1400 ticks
_draw_toast(w) ==
    IF w.toast.txt = "" THEN w
    ELSE IF w.ticks - w.toast.t > 1400 THEN [w EXCEPT !.toast.txt = ""]
    ELSE w

\* (a variant that discards the session on the way to the title screen)
_to_title_discards(w) ==
    [w EXCEPT !.state.screen = "title", !.state.board = None, !.state.solution = None,
              !.state.given = None]

\* (a variant that leaves for the wrong screen)
_to_title_wrong_screen(w) == [w EXCEPT !.state.screen = "pause"]

\* _to_title()
_to_title(w) == [w EXCEPT !.state.screen = "title"]

\* (a variant that keeps the start tick of the session before)
_to_game_keeps_clock(w) ==
    [_new_game([w EXCEPT !.state.screen = "play"]) EXCEPT !.state.start_time = w.state.start_time]

\* _to_game()
_to_game(w) == _new_game([w EXCEPT !.state.screen = "play"])

\* _to_pause()
_to_pause(w) == [w EXCEPT !.state.screen = "pause"]

\* (a variant that stores the time without comparing)
_to_gameover_always(w) ==
    [w EXCEPT !.state.screen = "gameover",
              !.state.hiscores[w.state.difficulty + 1] = w.state.time]

\* _to_gameover(): State.save only writes the external store, and its failure
\* is swallowed; neither changes the state dict.
_to_gameover(w) ==
    LET d == w.state.difficulty + 1
    IN  IF w.state.time < w.state.hiscores[d]
        THEN [w EXCEPT !.state.screen = "gameover", !.state.hiscores[d] = w.state.time]
        ELSE [w EXCEPT !.state.screen = "gameover"]

\* (a variant without the test for a given cell)
_place_number_unguarded(w, num) ==
    LET r == w.state.cursor_y
        c == w.state.cursor_x
        w1 == [w EXCEPT !.state.board = SetCell(w.state.board, r, c, num)]
        w2 == IF num # 0 /\ num # w.state.solution[r][c]
              THEN _toast([w1 EXCEPT !.state.mistakes = w.state.mistakes + 1], "Merge conflict!")
              ELSE w1
    IN  IF _is_complete(w2.state) THEN _to_gameover(w2) ELSE w2

\* (a variant that counts the clearing of a cell as a mistake)
_place_number_counts_clear(w, num) ==
    LET r == w.state.cursor_y
        c == w.state.cursor_x
    IN  IF w.state.given[r][c] THEN w
        ELSE LET w1 == [w EXCEPT !.state.board = SetCell(w.state.board, r, c, num)]
                 w2 == IF num # w.state.solution[r][c]
                       THEN _toast([w1 EXCEPT !.state.mistakes = w.state.mistakes + 1],
                                   "Merge conflict!")
                       ELSE w1
             IN  IF _is_complete(w2.state) THEN _to_gameover(w2) ELSE w2

\* _place_number(num)
_place_number(w, num) ==
    LET r == w.state.cursor_y
        c == w.state.cursor_x
    IN  IF w.state.given[r][c] THEN w
        ELSE LET w1 == [w EXCEPT !.state.board = SetCell(w.state.board, r, c, num)]
                 w2 == IF num # 0 /\ num # w.state.solution[r][c]
                       THEN _toast([w1 EXCEPT !.state.mistakes = w.state.mistakes + 1],
                                   "Merge conflict!")
                       ELSE w1
             IN  IF _is_complete(w2.state) THEN _to_gameover(w2) ELSE w2

\* (a variant that counts a hint as a mistake)
_hint_counts(w) ==
    LET r == w.state.cursor_y
        c == w.state.cursor_x
    IN  IF ~w.state.given[r][c]
        THEN LET w1 == _toast([w EXCEPT !.state.board =
                                   SetCell(w.state.board, r, c, w.state.solution[r][c]),
                                        !.state.mistakes = w.state.mistakes + 1],
                              "Hint applied!")
             IN  IF _is_complete(w1.state) THEN _to_gameover(w1) ELSE w1
        ELSE w

\* _hint()
_hint(w) ==
    LET r == w.state.cursor_y
        c == w.state.cursor_x
    IN  IF ~w.state.given[r][c]
        THEN LET w1 == _toast([w EXCEPT !.state.board =
                                   SetCell(w.state.board, r, c, w.state.solution[r][c])],
                              "Hint applied!")
             IN  IF _is_complete(w1.state) THEN _to_gameover(w1) ELSE w1
        ELSE w

\* (a variant that stops at the edge of the grid instead of wrapping)
_move_cursor_no_wrap(w, dx, dy) ==
    LET clamp(v) == IF v < 0 THEN 0 ELSE IF v > 8 THEN 8 ELSE v
    IN  [w EXCEPT !.state.cursor_x = clamp(w.state.cursor_x + dx),
                  !.state.cursor_y = clamp(w.state.cursor_y + dy)]

\* (a variant that applies dx to the row and dy to the column)
_move_cursor_swapped(w, dx, dy) ==
    [w EXCEPT !.state.cursor_x = (w.state.cursor_x + dy) % 9,
              !.state.cursor_y = (w.state.cursor_y + dx) % 9]

\* _move_cursor(dx, dy)
_move_cursor(w, dx, dy) ==
    [w EXCEPT !.state.cursor_x = (w.state.cursor_x + dx) % 9,
              !.state.cursor_y = (w.state.cursor_y + dy) % 9]

\* _pressed(btn) and _pause_pressed(): io.pressed holds BUTTON_HOME only on a
\* device that has one (the hasattr test).
_pressed(in, btn) == btn \in in.pressed

_pause_pressed(in) == _pressed(in, "HOME") \/ ("B" \in in.held /\ "C" \in in.held)

\* _handle_title()
_handle_title(w, in) ==
    IF _pressed(in, "UP")
    THEN [w EXCEPT !.state.difficulty = (w.state.difficulty - 1) % 3, !.op = "diff_up"]
    ELSE IF _pressed(in, "DOWN")
    THEN [w EXCEPT !.state.difficulty = (w.state.difficulty + 1) % 3, !.op = "diff_down"]
    ELSE IF _pressed(in, "B")
    THEN _to_game([w EXCEPT !.op = "start"])
    ELSE w

\* (a variant that collects every value of the row and the column, given or entered)
SkipNumbers_all_filled(st, r, c) ==
    ({st.board[r][x] : x \in Idx} \cup {st.board[x][c] : x \in Idx}) \ {0}

\* (a variant that collects the given values of the row only)
SkipNumbers_row_only(st, r, c) ==
    {st.board[r][x] : x \in {y \in Idx : st.given[r][y] /\ st.board[r][y] # 0}}

\* skip_numbers: the values of the given cells in row r or column c (lines 297-304)
SkipNumbers(st, r, c) ==
    {st.board[r][x] : x \in {y \in Idx : st.given[r][y] /\ st.board[r][y] # 0}}
    \cup {st.board[x][c] : x \in {y \in Idx : st.given[y][c] /\ st.board[y][c] # 0}}

\* The attempts of "for attempt in range(1, 11)" that pass the test of line 310
CycleAttempts(st, r, c) ==
    {a \in 1..10 : LET next_num == (st.board[r][c] + a) % 10
                   IN  next_num = 0 \/ next_num \notin SkipNumbers(st, r, c)}

\* The B branch of _handle_play (lines 291-312): _place_number at the first
\* attempt that passes, then break.
Cycle(w) ==
    LET r == w.state.cursor_y
        c == w.state.cursor_x
        A == CycleAttempts(w.state, r, c)
    IN  IF w.state.given[r][c] \/ A = {} THEN w
        ELSE LET attempt == CHOOSE a \in A : \A b \in A : a <= b
             IN  _place_number(w, (w.state.board[r][c] + attempt) % 10)

\* (a variant that looks at the movement and cycle buttons before the pause gesture)
_handle_play_pause_last(w, in) ==
    LET w1 == [w EXCEPT !.state.time = (w.ticks - w.state.start_time) \div 1000]
    IN  IF _pressed(in, "UP") THEN _move_cursor([w1 EXCEPT !.op = "up"], 0, -1)
        ELSE IF _pressed(in, "DOWN") THEN _move_cursor([w1 EXCEPT !.op = "down"], 0, 1)
        ELSE IF _pressed(in, "A") THEN _move_cursor([w1 EXCEPT !.op = "left"], -1, 0)
        ELSE IF _pressed(in, "C") THEN _move_cursor([w1 EXCEPT !.op = "right"], 1, 0)
        ELSE IF _pressed(in, "B") THEN Cycle([w1 EXCEPT !.op = "cycle"])
        ELSE IF _pause_pressed(in) THEN _to_pause([w1 EXCEPT !.op = "pause"])
        ELSE w1

\* _handle_play()
_handle_play(w, in) ==
    LET w1 == [w EXCEPT !.state.time = (w.ticks - w.state.start_time) \div 1000]
    IN  IF _pause_pressed(in) THEN _to_pause([w1 EXCEPT !.op = "pause"])
        ELSE IF _pressed(in, "UP") THEN _move_cursor([w1 EXCEPT !.op = "up"], 0, -1)
        ELSE IF _pressed(in, "DOWN") THEN _move_cursor([w1 EXCEPT !.op = "down"], 0, 1)
        ELSE IF _pressed(in, "A") THEN _move_cursor([w1 EXCEPT !.op = "left"], -1, 0)
        ELSE IF _pressed(in, "C") THEN _move_cursor([w1 EXCEPT !.op = "right"], 1, 0)
        ELSE IF _pressed(in, "B") THEN Cycle([w1 EXCEPT !.op = "cycle"])
        ELSE w1

\* (a variant whose resume moves the start tick past the time spent in pause)
_handle_pause_shifts_clock(w, in) ==
    IF _pressed(in, "A")
    THEN [w EXCEPT !.state.screen = "play", !.op = "resume",
                   !.state.start_time = w.ticks - 1000 * w.state.time]
    ELSE IF _pressed(in, "B") THEN _to_title([w EXCEPT !.op = "to_title"])
    ELSE w

\* _handle_pause()
_handle_pause(w, in) ==
    IF _pressed(in, "A") THEN [w EXCEPT !.state.screen = "play", !.op = "resume"]
    ELSE IF _pressed(in, "B") THEN _to_title([w EXCEPT !.op = "to_title"])
    ELSE w

\* _handle_gameover()
_handle_gameover(w, in) ==
    IF _pressed(in, "A") THEN _to_game([w EXCEPT !.op = "retry"])
    ELSE IF _pressed(in, "B") THEN _to_title([w EXCEPT !.op = "to_title"])
    ELSE w

\* update(): one frame.  Of the draw calls only _draw_toast changes anything.
update(w, in) ==
    LET w0 == [w EXCEPT !.op = "none"]
    IN  CASE w.state.screen = "title" -> _handle_title(w0, in)
          [] w.state.screen = "play" -> _draw_toast(_handle_play(w0, in))
          [] w.state.screen = "pause" -> _handle_pause(w0, in)
          [] w.state.screen = "gameover" -> _handle_gameover(w0, in)
          [] OTHER -> w0

\* ------------------------------------------------------------- the player
\* The button sets of one frame: io.pressed and io.held.
Inputs ==
    {[pressed |-> p, held |-> {}] :
        p \in {{}, {"UP"}, {"DOWN"}, {"A"}, {"B"}, {"C"}, {"HOME"}, {"UP", "B"}, {"A", "B"}}}
    \cup {[pressed |-> {"C"}, held |-> {"B", "C"}], [pressed |-> {"B", "HOME"}, held |-> {"B"}]}

\* The ledgers State.load may hand back: nothing stored, or a record per tier.
LoadedScores == {<<Sentinel, Sentinel, Sentinel>>, <<FastRecord, SlowRecord, FastRecord>>}

\* A non-given cell that does not hold the solution's value
Wrong(st, r, c) == ~st.given[r][c] /\ st.board[r][c] # st.solution[r][c]

WrongCells(st) == {k \in 0..80 : Wrong(st, k \div 9, k % 9)}

\* The solving player: on the title screen picks difficulty `diff` and starts;
\* in play cycles the cell under the cursor until it is right, walks right while
\* the row has a wrong cell, and else walks down.
Policy(st, diff) ==
    CASE st.screen = "title" ->
             IF st.difficulty # diff THEN {"DOWN"} ELSE {"B"}
      [] st.screen = "play" ->
             IF Wrong(st, st.cursor_y, st.cursor_x) THEN {"B"}
             ELSE IF \E c \in Idx : Wrong(st, st.cursor_y, c) THEN {"C"}
             ELSE {"DOWN"}
      [] OTHER -> {}

\* One press of B would complete the board.
NearEnd(st) ==
    /\ st.screen = "play"
    /\ WrongCells(st) = {9 * st.cursor_y + st.cursor_x}
    /\ LET A == CycleAttempts(st, st.cursor_y, st.cursor_x)
       IN  /\ A # {}
           /\ (st.board[st.cursor_y][st.cursor_x] + (CHOOSE a \in A : \A b \in A : a <= b)) % 10
                 = st.solution[st.cursor_y][st.cursor_x]

\* ------------------------------------------------------------- state
VARIABLES
    state,      \* the state dict
    rng_state,  \* _rng_state["s"]
    toast_msg,  \* _toast_msg
    ticks,      \* io.ticks
    last,       \* [op |-> the branch the last step took, from |-> the screen before it]
    player,     \* [mode |-> "auto" (the solving player) or "free", diff |-> its difficulty]
    frames,     \* frames the free player has taken
    sv,         \* a call of _solve_sudoku on its own: [phase, grid, ok, out]
    gv          \* a new game under arbitrary PRNG draws: [phase, s, difficulty, solution, m, board, given]

vars == <<state, rng_state, toast_msg, ticks, last, player, frames, sv, gv>>

\* No call of the solver on its own, no generation on its own
NoCall == [phase |-> "none"]

World == [state |-> state, rng |-> rng_state, toast |-> toast_msg, ticks |-> ticks,
          op |-> "none", in_bound |-> TRUE]

\* The variables after a step that leaves the program in world w
Becomes(w) ==
    /\ w.in_bound
    /\ state' = w.state
    /\ rng_state' = w.rng
    /\ toast_msg' = w.toast
    /\ ticks' = w.ticks
    /\ last' = [op |-> w.op, from |-> state.screen]

\* The module has been imported at io.ticks = tick with the ledger `loaded`.
Booted(tick, loaded) ==
    /\ state = BootWorld(tick, loaded).state
    /\ rng_state = BootWorld(tick, loaded).rng
    /\ toast_msg = BootWorld(tick, loaded).toast
    /\ ticks = tick
    /\ last = [op |-> "boot", from |-> "title"]
    /\ frames = 0

Init ==
    /\ \E tick \in 0..MaxBootTick, loaded \in LoadedScores : Booted(tick, loaded)
    /\ player \in {[mode |-> "free", diff |-> 0]} \cup {[mode |-> "auto", diff |-> d] : d \in 0..2}
    /\ sv = NoCall
    /\ gv = NoCall

\* A frame of the free player: update() on any input.
Frame ==
    /\ player.mode = "free"
    /\ frames < MaxFrames
    /\ \E in \in Inputs :
          Becomes(update([World EXCEPT !.ticks = ticks + FrameMs], in))
    /\ frames' = frames + 1
    /\ UNCHANGED <<player, sv, gv>>

\* The badge is left alone: the next frame comes LongWait later, no button down.
Idle ==
    /\ player.mode = "free"
    /\ frames < MaxFrames
    /\ ticks < LongWait
    /\ Becomes(update([World EXCEPT !.ticks = ticks + LongWait], [pressed |-> {}, held |-> {}]))
    /\ frames' = frames + 1
    /\ UNCHANGED <<player, sv, gv>>

\* A frame of the solving player: update() on the input its policy chooses.
AutoFrame ==
    /\ player.mode = "auto"
    /\ LET w == update([World EXCEPT !.ticks = ticks + FrameMs],
                       [pressed |-> Policy(state, player.diff), held |-> {}])
       IN  /\ Becomes(w)
           /\ player' = IF NearEnd(w.state) THEN [player EXCEPT !.mode = "free"] ELSE player
    /\ UNCHANGED <<frames, sv, gv>>

\* _place_number(num) and _hint() called on their own, as the operations
\* place_number(value) and apply_hint of the session (no handler of the source
\* calls _hint; _handle_play calls _place_number with the cycled value only).
Place ==
    /\ player.mode = "free"
    /\ frames < MaxFrames
    /\ state.screen = "play"
    /\ \E num \in 0..9 : Becomes(_place_number([World EXCEPT !.op = "place"], num))
    /\ frames' = frames + 1
    /\ UNCHANGED <<player, sv, gv>>

Hint ==
    /\ player.mode = "free"
    /\ frames < MaxFrames
    /\ state.screen = "play"
    /\ Becomes(_hint([World EXCEPT !.op = "hint"]))
    /\ frames' = frames + 1
    /\ UNCHANGED <<player, sv, gv>>

\* _hint() called again right after a call of _hint(), whatever screen the
\* first call left (_hint itself does not look at the screen).
HintAgain ==
    /\ player.mode = "free"
    /\ frames < MaxFrames
    /\ last.op = "hint"
    /\ Becomes(_hint([World EXCEPT !.op = "hint_again"]))
    /\ frames' = frames + 1
    /\ UNCHANGED <<player, sv, gv>>

Next == Frame \/ Idle \/ AutoFrame \/ Place \/ Hint \/ HintAgain

Spec == Init /\ [][Next]_vars

\* ------------------------------------------------------------- the solver on its own
\* A full valid grid, and the cells the solver's input grids are made from:
\* cells of SolvedGrid are blanked, and one cell may be overwritten.
SolvedGrid == [r \in Idx |-> [c \in Idx |-> ((3 * (r % 3) + (r \div 3) + c) % 9) + 1]]

BlankCells == {0, 1, 7, 27, 80}
Overwrites == {<<0, 2>>, <<79, 8>>, <<40, 1>>, <<80, 1>>}
\* Larger holes: the first two rows, and all but the three diagonal boxes
\* (the shape _generate_full_board hands to the solver).
WideBlanks == {0..17, {k \in 0..80 : (k \div 27) # ((k % 9) \div 3)}}

RECURSIVE Blanked(_, _)
Blanked(board, cells) ==
    IF cells = {} THEN board
    ELSE LET k == CHOOSE x \in cells : TRUE
         IN  Blanked(SetCell(board, k \div 9, k % 9, 0), cells \ {k})

SmallBlanks == {B \in SUBSET BlankCells : Cardinality(B) <= MaxBlanks}

SolveInputs ==
    {Blanked(SolvedGrid, B) : B \in SmallBlanks \cup WideBlanks}
    \cup {SetCell(Blanked(SolvedGrid, B), o[1] \div 9, o[1] % 9, o[2]) :
             B \in SmallBlanks, o \in Overwrites}

InitSolve ==
    /\ Booted(0, <<Sentinel, Sentinel, Sentinel>>)
    /\ player = [mode |-> "free", diff |-> 0]
    /\ gv = NoCall
    /\ \E g \in SolveInputs : sv = [phase |-> "input", grid |-> g, ok |-> FALSE, out |-> g]

\* _solve_sudoku(board) is called and returns; `out` is the board as it leaves it.
Solve ==
    /\ sv.phase = "input"
    /\ \E res \in {_solve_sudoku(sv.grid)} :
          /\ res.mode = "done"
          /\ sv' = [phase |-> "returned", grid |-> sv.grid, ok |-> res.ok, out |-> res.board]
    /\ UNCHANGED <<state, rng_state, toast_msg, ticks, last, player, frames, gv>>

NextSolve == Solve

SpecSolve == InitSolve /\ [][NextSolve]_vars

\* ------------------------------------------------------------- a new game under arbitrary draws
\* _new_game() taken apart: the solution is generated from the PRNG state the
\* boot tick seeds; the carving then runs pass by pass with the index of line
\* 148 drawn by urandom.getrandbits (the first branch of _getrandbits), which
\* may return any value: the draws followed here are the two ends of the range.
CarveDraws(m) == {0, Len(m.cells) - 1}

InitGen ==
    /\ Booted(0, <<Sentinel, Sentinel, Sentinel>>)
    /\ player = [mode |-> "free", diff |-> 0]
    /\ sv = NoCall
    /\ \E tick \in 0..MaxGenTick, d \in 0..2 :
          gv = [phase |-> "boot", s |-> RngSeed(tick), difficulty |-> d]

\* lines 168-173: the solution, generated again when validation fails
GenSolution ==
    /\ gv.phase = "boot"
    /\ \E gen \in {_generate_full_board(gv.s)} :
          /\ gen.done
          /\ gv' = IF ~_validate_board(gen.board)
                   THEN [gv EXCEPT !.s = gen.s]
                   ELSE [phase |-> "carve", difficulty |-> gv.difficulty, solution |-> gen.board,
                         m |-> CarveStart(gen.s, gen.board, gv.difficulty)]
    /\ UNCHANGED <<state, rng_state, toast_msg, ticks, last, player, frames, sv>>

\* one pass of the loop of _remove_numbers
GenCarvePass ==
    /\ gv.phase = "carve"
    /\ ~CarveDone(gv.m)
    /\ \E idx \in CarveDraws(gv.m) :
          gv' = [gv EXCEPT !.m = CarveWith(gv.m, [s |-> gv.m.s, r |-> idx])]
    /\ UNCHANGED <<state, rng_state, toast_msg, ticks, last, player, frames, sv>>

\* lines 175-178: given, board and solution are installed
GenInstall ==
    /\ gv.phase = "carve"
    /\ CarveDone(gv.m)
    /\ gv' = [phase |-> "installed", difficulty |-> gv.difficulty, solution |-> gv.solution,
              board |-> gv.m.board, given |-> GivenOf(gv.m.board)]
    /\ UNCHANGED <<state, rng_state, toast_msg, ticks, last, player, frames, sv>>

NextGen == GenSolution \/ GenCarvePass \/ GenInstall

SpecGen == InitGen /\ [][NextGen]_vars

\* ------------------------------------------------------------- what the properties speak of
\* (defined from the rules of the puzzle, not from the solver)
At(g, k) == g[k \div 9][k % 9]

RowOf(g, i) == {g[i][c] : c \in Idx}
ColOf(g, i) == {g[r][i] : r \in Idx}
BoxOf(g, i) == {g[3 * (i \div 3) + a][3 * (i % 3) + b] : a \in 0..2, b \in 0..2}

\* No empty cell, and every row, column and box holds each of 1..9
ValidFull(g) == \A i \in Idx : RowOf(g, i) = 1..9 /\ ColOf(g, i) = 1..9 /\ BoxOf(g, i) = 1..9

Blanks(g) == {k \in 0..80 : At(g, k) = 0}

\* h keeps every filled cell of g
Extends(h, g) == \A k \in 0..80 : At(g, k) # 0 => At(h, k) = At(g, k)

Fill(g, f) == [r \in Idx |-> [c \in Idx |-> IF g[r][c] = 0 THEN f[9 * r + c] ELSE g[r][c]]]

\* g has a full solution consistent with its filled cells: SolvedGrid is one, or
\* some assignment to its empty cells is.
Solvable(g) ==
    \/ ValidFull(SolvedGrid) /\ Extends(SolvedGrid, g)
    \/ \E f \in [Blanks(g) -> 1..9] : ValidFull(Fill(g, f))

\* Two filled cells of g that share a row, a column or a box hold the same value.
Conflicting(g) ==
    \E j, k \in 0..80 :
        /\ j # k /\ At(g, j) # 0 /\ At(g, j) = At(g, k)
        /\ \/ j \div 9 = k \div 9
           \/ j % 9 = k % 9
           \/ (j \div 27 = k \div 27 /\ (j % 9) \div 3 = (k % 9) \div 3)

\* A session exists: a new game has installed board, solution and given.
HasSession == state.board # None

\* The cursor cell is a given cell (of a state with a session)
CursorGiven(st) == st.given[st.cursor_y][st.cursor_x]

\* The step called _place_number (from the cycle branch or on its own) or _hint
PlaceStep == last'.op \in {"cycle", "place"}
HintStep == last'.op = "hint"

\* ------------------------------------------------------------- C1
\* C1: the screen starts as title and changes only along title->play (confirm),
\* play->pause (pause gesture), pause->play (resume), pause->title,
\* play->gameover (board completed), gameover->play (retry), gameover->title.
ScreenEdge ==
    \/ state'.screen = state.screen
    \/ state.screen = "title" /\ state'.screen = "play" /\ last'.op = "start"
    \/ state.screen = "play" /\ state'.screen = "pause" /\ last'.op = "pause"
    \/ state.screen = "pause" /\ state'.screen = "play" /\ last'.op = "resume"
    \/ state.screen = "pause" /\ state'.screen = "title" /\ last'.op = "to_title"
    \/ state.screen = "play" /\ state'.screen = "gameover" /\ state'.board = state'.solution
    \/ state.screen = "gameover" /\ state'.screen = "play" /\ last'.op = "retry"
    \/ state.screen = "gameover" /\ state'.screen = "title" /\ last'.op = "to_title"

C1_ScreenEdges == state.screen = "title" /\ [][ScreenEdge]_vars

\* A finished game has been retried: title->play, play->gameover and
\* gameover->play have all been taken.
C1_Witness == last.from = "gameover" /\ state.screen = "play"

\* ------------------------------------------------------------- C2
\* C2: after a cell write made during play by place_number or apply_hint the
\* screen is gameover if and only if board equals solution; and whenever the
\* screen is play, board differs from solution.
WriteStep == state.screen = "play" /\ (PlaceStep \/ HintStep) /\ ~CursorGiven(state)

C2_GameoverIffComplete ==
    /\ [](state.screen = "play" => state.board # state.solution)
    /\ [][WriteStep => (state'.screen = "gameover" <=> state'.board = state'.solution)]_vars

\* A write has completed the board.
C2_Witness ==
    /\ state.screen = "gameover"
    /\ last.from = "play"
    /\ last.op \in {"cycle", "place", "hint"}
    /\ state.board = state.solution

\* ------------------------------------------------------------- C3
\* C3: whenever a session exists, every given cell holds the solution's value.
C3_GivenCellsCorrect ==
    HasSession => \A r \in Idx, c \in Idx :
                     state.given[r][c] => state.board[r][c] = state.solution[r][c]

\* A write has just been attempted with the cursor on a given cell.
C3_Witness ==
    /\ HasSession
    /\ state.screen = "play"
    /\ last.op \in {"cycle", "place"}
    /\ CursorGiven(state)

\* ------------------------------------------------------------- C4
\* C4: within a session the mistakes counter changes only by +1, and exactly
\* when place_number writes into a non-given cell a value that is neither 0
\* nor the solution's (also when the cell already held that wrong value); it
\* never decreases.
NewGameStep == last'.op \in {"start", "retry"}

\* The value the step has left in the cursor cell of the state before it
Written == state'.board[state.cursor_y][state.cursor_x]

WrongWrite ==
    /\ PlaceStep
    /\ ~CursorGiven(state)
    /\ Written # 0
    /\ Written # state.solution[state.cursor_y][state.cursor_x]

MistakeCounted ==
    (HasSession /\ ~NewGameStep)
        => /\ state'.mistakes \in {state.mistakes, state.mistakes + 1}
           /\ (state'.mistakes = state.mistakes + 1) <=> (state.screen = "play" /\ WrongWrite)

C4_MistakesCountWrongWrites == [][MistakeCounted]_vars

\* Two wrong writes have been counted, the second by place_number on its own.
C4_Witness ==
    /\ HasSession
    /\ last.op = "place"
    /\ state.mistakes = 2
    /\ state.board[state.cursor_y][state.cursor_x] \notin {0, state.solution[state.cursor_y][state.cursor_x]}

\* ------------------------------------------------------------- C5
\* The record of the difficulty played, before and after a step
Record == state.hiscores[state.difficulty + 1]
RecordAfter == state'.hiscores[state.difficulty + 1]

EntersGameover == state.screen # "gameover" /\ state'.screen = "gameover"

OtherRecordsKept ==
    \A d \in 1..3 : d # state.difficulty + 1 => state'.hiscores[d] = state.hiscores[d]

\* C5 as stated: on entry to gameover with elapsed time t the record of the
\* difficulty becomes t if t is strictly lower than the stored record or the
\* stored record is the sentinel, and is unchanged otherwise; the other records
\* are unchanged; no other step changes a record.
C5_AsStated ==
    [][IF EntersGameover
       THEN /\ RecordAfter = IF state'.time < Record \/ Record = Sentinel
                             THEN state'.time ELSE Record
            /\ OtherRecordsKept
       ELSE state'.hiscores = state.hiscores]_vars

\* C5 (amended): on entry to gameover with elapsed time t the record of the
\* difficulty becomes t exactly when t is strictly lower than the stored record,
\* the sentinel 999999 counting as a stored record, and is unchanged otherwise;
\* the other records are unchanged; no other step changes a record; every
\* record is non-increasing.
C5_LedgerKeepsBest ==
    [][/\ IF EntersGameover
          THEN /\ RecordAfter = IF state'.time < Record THEN state'.time ELSE Record
               /\ OtherRecordsKept
          ELSE state'.hiscores = state.hiscores
       /\ \A d \in 1..3 : state'.hiscores[d] <= state.hiscores[d]]_vars

\* A game has ended with a time that replaced a record loaded from the store.
C5_Witness ==
    /\ state.screen = "gameover"
    /\ last.from = "play"
    /\ state.hiscores[state.difficulty + 1] = state.time
    /\ state.hiscores[1] = FastRecord

\* ------------------------------------------------------------- C6
\* C6: whatever indices are drawn, the board a new game carves has exactly
\* 40 / 50 / 60 zero cells (Easy / Medium / Hard), each of its non-zero cells
\* equals the solution's, and given is true at exactly the non-zero cells
\* (41 of them for Easy).
Removed(d) == CASE d = 0 -> 40 [] d = 1 -> 50 [] d = 2 -> 60

GivenCells(given) == {k \in 0..80 : At(given, k)}

C6_CarvedBoard ==
    gv.phase = "installed"
        => /\ Cardinality(Blanks(gv.board)) = Removed(gv.difficulty)
           /\ Extends(gv.solution, gv.board)
           /\ GivenCells(gv.given) = (0..80) \ Blanks(gv.board)
           /\ Cardinality(GivenCells(gv.given)) = 81 - Removed(gv.difficulty)

\* An Easy game has been installed with 41 given cells.
C6_Witness ==
    /\ gv.phase = "installed"
    /\ gv.difficulty = 0
    /\ Cardinality(GivenCells(gv.given)) = 41

\* ------------------------------------------------------------- C7
\* C7: every solution a new game installs has no empty cell, and each of its
\* rows, columns and 3x3 boxes holds each of 1..9 exactly once.
C7_SolutionValid == gv.phase \in {"carve", "installed"} => ValidFull(gv.solution)

\* A solution has been generated, validated and installed.
C7_Witness == gv.phase = "installed" /\ Blanks(gv.solution) = {}

\* ------------------------------------------------------------- C8
\* C8: on a grid that has a full solution consistent with its filled cells,
\* solve returns success and leaves the grid full, with every originally
\* filled cell unchanged and every row, column and box constraint satisfied.
C8_SolveFindsSolution ==
    (sv.phase = "returned" /\ Solvable(sv.grid))
        => /\ sv.ok
           /\ Blanks(sv.out) = {}
           /\ Extends(sv.out, sv.grid)
           /\ ValidFull(sv.out)

\* The solver returned on a solvable grid with the three diagonal boxes given
\* and nothing else: it had 54 cells to fill.
C8_Witness ==
    /\ sv.phase = "returned"
    /\ Solvable(sv.grid)
    /\ Cardinality(Blanks(sv.grid)) = 54
    /\ sv.ok

\* ------------------------------------------------------------- C9
\* C9: on a grid that has no full solution consistent with its filled cells
\* (conflicting filled cells and grids with no empty cell included), solve
\* reports failure and the grid after the call equals the grid before it.
C9_SolveFailsAndRestores ==
    (sv.phase = "returned" /\ ~Solvable(sv.grid)) => (~sv.ok /\ sv.out = sv.grid)

\* ------------------------------------------------------------- C10
\* C10: with the cursor on a given cell, the cycle command, place_number(v) and
\* apply_hint change neither board, mistakes, screen, cursor nor the ledger.
NoOpOnGiven ==
    (state.screen = "play" /\ (PlaceStep \/ HintStep) /\ CursorGiven(state))
        => /\ state'.board = state.board
           /\ state'.mistakes = state.mistakes
           /\ state'.screen = state.screen
           /\ state'.cursor_x = state.cursor_x
           /\ state'.cursor_y = state.cursor_y
           /\ state'.hiscores = state.hiscores

C10_GivenCellIgnoresWrites == [][NoOpOnGiven]_vars

\* apply_hint has just been called with the cursor on a given cell.
C10_Witness ==
    /\ state.screen = "play"
    /\ last.op = "hint"
    /\ CursorGiven(state)

\* ------------------------------------------------------------- C11
\* The fields of the session a pause must not touch
Puzzle(st) == <<st.board, st.solution, st.given, st.cursor_x, st.cursor_y, st.mistakes,
                st.difficulty>>

\* The frame that enters pause, and every frame taken while the screen is pause
PauseStep == (state.screen = "play" /\ last'.op = "pause") \/ state.screen = "pause"

\* In play, a frame whose buttons hold the pause gesture goes to pause and does
\* nothing else to the session, whatever else is pressed.
PauseGestureWins ==
    state.screen = "play" =>
        \A in \in {i \in Inputs : _pause_pressed(i)} :
            LET w == update([World EXCEPT !.ticks = ticks + FrameMs], in)
            IN  w.state.screen = "pause" /\ Puzzle(w.state) = Puzzle(state)

\* C11: entering pause, every frame in pause and the resume leave board,
\* solution, given, cursor, mistakes and difficulty unchanged; a frame with the
\* pause gesture applies no cursor move and no value entry even when a movement
\* or cycle button is pressed too; the stored elapsed time does not change
\* while the screen is pause.
C11_PauseKeepsSession ==
    [][/\ PauseStep => Puzzle(state') = Puzzle(state)
       /\ state.screen = "pause" => state'.time = state.time
       /\ PauseGestureWins]_vars

\* A paused game has been resumed.
C11_Witness == state.screen = "play" /\ last.op = "resume" /\ last.from = "pause"

\* ------------------------------------------------------------- C12
\* The step enters play from title or from gameover
EntersPlay == state.screen \in {"title", "gameover"} /\ state'.screen = "play"

\* st holds a session as a new game leaves it at tick t
FreshSession(st, t) ==
    /\ st.cursor_y = 0 /\ st.cursor_x = 0
    /\ st.mistakes = 0
    /\ st.time = 0
    /\ st.start_time = t
    /\ ValidFull(st.solution)
    /\ Extends(st.solution, st.board)
    /\ Cardinality(Blanks(st.board)) = Removed(st.difficulty)
    /\ GivenCells(st.given) = (0..80) \ Blanks(st.board)

\* C12: every entry into play from title (confirm) or gameover (retry) installs
\* a fresh session: cursor (0,0), mistakes 0, elapsed time 0, start tick the
\* current tick, and a generated board, solution and given mask (the PRNG has
\* been drawn from).  Retry keeps the difficulty; the difficulty changes only
\* by up/down on the title screen.
C12_FreshSessionOnEntry ==
    [][/\ EntersPlay => /\ NewGameStep
                        /\ FreshSession(state', ticks')
                        /\ rng_state' # rng_state
                        /\ state'.difficulty = state.difficulty
       /\ NewGameStep => EntersPlay
       /\ state'.difficulty # state.difficulty
            => state.screen = "title" /\ last'.op \in {"diff_up", "diff_down"}]_vars

\* A finished Medium game has been retried.
C12_Witness ==
    /\ state.screen = "play"
    /\ last.op = "retry"
    /\ state.difficulty = 1
    /\ FreshSession(state, ticks)

\* ------------------------------------------------------------- C13
\* The cursor as the (row, col) pair of the data model: r, c = cursor_y, cursor_x
\* (lines 194, 205, 293)
Cursor(st) == <<st.cursor_y, st.cursor_x>>

\* A command of play, given at cursor (0,0)
FromOrigin(op) == state.screen = "play" /\ Cursor(state) = <<0, 0>> /\ last'.op = op

\* C13 as stated: from cursor (0,0), "up" yields cursor (0,8) and "left"
\* yields cursor (8,0), the cursor written (row, col).
C13_AsStated ==
    [][/\ FromOrigin("up") => Cursor(state') = <<0, 8>>
       /\ FromOrigin("left") => Cursor(state') = <<8, 0>>]_vars

\* C13 (amended): from cursor (0,0), "up" yields cursor (8,0) (the row wraps,
\* the column stays) and "left" yields cursor (0,8) (the column wraps, the row
\* stays), the cursor written (row, col).
C13_CursorWraps ==
    [][/\ FromOrigin("up") => Cursor(state') = <<8, 0>>
       /\ FromOrigin("left") => Cursor(state') = <<0, 8>>]_vars

\* "up" has just been taken from (0,0): only row 0 wraps to row 8.
C13_Witness == state.screen = "play" /\ last.op = "up" /\ Cursor(state) = <<8, 0>>

\* ------------------------------------------------------------- C14
\* The step is the second of two calls of apply_hint in a row
SecondHint == last.op = "hint" /\ last'.op = "hint_again"

\* C14: a second call of apply_hint right after a first changes neither the
\* board, the mistakes count nor the score ledger, also when the first call
\* completed the board and entered gameover; apply_hint never increments
\* mistakes.
C14_HintIdempotent ==
    [][/\ SecondHint => /\ state'.board = state.board
                        /\ state'.mistakes = state.mistakes
                        /\ state'.hiscores = state.hiscores
       /\ last'.op \in {"hint", "hint_again"} => state'.mistakes = state.mistakes]_vars

\* apply_hint has been called again on a non-given cell after the first call
\* completed the board and set a record.
C14_Witness ==
    /\ last.op = "hint_again"
    /\ last.from = "gameover"
    /\ state.screen = "gameover"
    /\ ~CursorGiven(state)
    /\ state.hiscores[state.difficulty + 1] = state.time

\* ------------------------------------------------------------- C16
\* locked: the non-zero values of the given cells in row r or column c
Locked(st, r, c) ==
    {At(st.board, k) : k \in {j \in {9 * r + x : x \in Idx} \cup {9 * x + c : x \in Idx} :
                                 At(st.given, j)}} \ {0}

\* (cur + k) mod 10 for the smallest k in 1..10 that gives 0 or a value not locked
FirstCandidate(cur, locked) ==
    LET ok(k) == (cur + k) % 10 = 0 \/ (cur + k) % 10 \notin locked
        k0 == CHOOSE k \in 1..10 : ok(k) /\ \A j \in 1..(k - 1) : ~ok(j)
    IN  (cur + k0) % 10

\* The next value in the round "non-locked values ascending, then 0"
NextInRound(cur, locked) ==
    LET above == {v \in (cur + 1)..9 : v \notin locked}
    IN  IF above = {} THEN 0 ELSE CHOOSE v \in above : \A u \in above : v <= u

\* A cycle command on a non-given cell
CycleStep == state.screen = "play" /\ last'.op = "cycle" /\ ~CursorGiven(state)

\* C16: a cycle command on a non-given cell holding cur writes (cur + k) mod 10
\* for the smallest k in 1..10 that gives 0 or a value not locked; so it writes
\* exactly one cell once (a candidate always exists), never a locked value, and
\* repeated cycling goes through the non-locked values in ascending order and
\* then 0.
C16_CycleWritesNextUnlocked ==
    [][CycleStep =>
        LET r == state.cursor_y
            c == state.cursor_x
            cur == state.board[r][c]
            locked == Locked(state, r, c)
        IN  /\ \E k \in 1..10 : (cur + k) % 10 = 0 \/ (cur + k) % 10 \notin locked
            /\ state'.board = SetCell(state.board, r, c, FirstCandidate(cur, locked))
            /\ Written \notin locked
            /\ Written = NextInRound(cur, locked)
            /\ state'.mistakes - state.mistakes \in {0, 1}]_vars

\* The solving player's cycle command has just written a value whose
\* predecessor is locked: the command skipped it.
C16_Witness ==
    /\ player.mode = "auto"
    /\ state.screen = "play"
    /\ last.op = "cycle"
    /\ ~CursorGiven(state)
    /\ LET v == state.board[state.cursor_y][state.cursor_x]
       IN  v >= 2 /\ (v - 1) \in Locked(state, state.cursor_y, state.cursor_x)

\* ------------------------------------------------------------- C17
\* The step is a frame handled by the play screen
PlayFrame == state.screen = "play" /\ last'.op \notin {"place", "hint", "hint_again"}

\* The clock does not run backwards
ClockMonotonic == ticks' >= ticks

\* C17: every play frame sets the elapsed time to (tick - start tick) div 1000;
\* the start tick is the tick of the new game and no other step changes it,
\* pause and resume included, so the time a play frame after a resume stores
\* (and a gameover entered in that frame compares with the ledger) counts the
\* ticks spent in pause; within a session the elapsed time never decreases.
C17_ElapsedFromStartTick ==
    [][/\ ClockMonotonic
       /\ PlayFrame => state'.time = (ticks' - state.start_time) \div 1000
       /\ IF NewGameStep THEN state'.start_time = ticks'
                         ELSE /\ state'.start_time = state.start_time
                              /\ state'.time >= state.time
       /\ (PlayFrame /\ EntersGameover /\ state'.time < Record) => RecordAfter = state'.time]_vars

\* A game has just been resumed after a pause in which the clock passed a whole
\* second: the stored time is behind (tick - start tick) div 1000, which the
\* next play frame stores.
C17_Witness ==
    /\ state.screen = "play"
    /\ last.op = "resume"
    /\ (ticks - state.start_time) \div 1000 > state.time

\* ------------------------------------------------------------- C18
\* The (row, col) change of each directional command
Delta(op) ==
    CASE op = "up" -> <<-1, 0>>
      [] op = "down" -> <<1, 0>>
      [] op = "left" -> <<0, -1>>
      [] op = "right" -> <<0, 1>>

\* A directional command of play
MoveStep == state.screen = "play" /\ last'.op \in {"up", "down", "left", "right"}

\* The cells in which two boards differ
Changed(b1, b2) == {k \in 0..80 : At(b1, k) # At(b2, k)}

\* C18: cursor row and column are always in 0..8; a directional command of
\* play changes one axis by +1 or -1 modulo 9 and leaves the other axis, the
\* board, mistakes and the screen unchanged, whatever the cells hold; a step
\* applies at most one command, a move or a value entry; the cursor does not
\* change on the title, pause and gameover screens, but for the reset to (0,0)
\* of a new game.
C18_CursorMoves ==
    /\ [](state.cursor_y \in 0..8 /\ state.cursor_x \in 0..8)
    /\ [][/\ MoveStep =>
              /\ state'.cursor_y = (state.cursor_y + Delta(last'.op)[1]) % 9
              /\ state'.cursor_x = (state.cursor_x + Delta(last'.op)[2]) % 9
              /\ state'.board = state.board
              /\ state'.mistakes = state.mistakes
              /\ state'.screen = state.screen
          /\ (HasSession /\ ~NewGameStep) =>
              /\ Cursor(state') = Cursor(state) \/ state'.board = state.board
              /\ Cursor(state') # Cursor(state) => MoveStep
              /\ Cardinality(Changed(state.board, state'.board)) <= 1
          /\ state.screen \in {"title", "pause", "gameover"} =>
              \/ Cursor(state') = Cursor(state)
              \/ NewGameStep /\ Cursor(state') = <<0, 0>>]_vars

\* "down" has moved the cursor from the last row to row 0, onto a given cell,
\* after a wrong value had been entered.
C18_Witness ==
    /\ state.screen = "play"
    /\ last.op = "down"
    /\ state.cursor_y = 0
    /\ CursorGiven(state)
    /\ state.mistakes > 0

\* ------------------------------------------------------------- C19
\* C19: from the creation of a session to the next new game no step (cursor
\* move, cycle, place_number, apply_hint, pause, resume, gameover entry, return
\* to title) changes a cell of solution or an entry of given, and every board
\* cell a step changes is a cell whose given entry is false.
C19_SolutionAndGivenFrozen ==
    [][(HasSession /\ ~NewGameStep) =>
          /\ state'.solution = state.solution
          /\ state'.given = state.given
          /\ \A k \in Changed(state.board, state'.board) : ~At(state.given, k)]_vars

\* A session that was played to the end, with a mistake on the way, is still
\* in place after the return from gameover to the title screen.
C19_Witness ==
    /\ HasSession
    /\ state.screen = "title"
    /\ last.op = "to_title"
    /\ last.from = "gameover"
    /\ state.mistakes > 0
    /\ ValidFull(state.solution)

\* ------------------------------------------------------------- C20
\* The number of cycle commands that take a cell from cur to sol along the
\* round "non-locked values ascending, then 0" (sol not locked)
CycleDist(cur, sol, locked) ==
    IF cur < sol THEN Cardinality({v \in (cur + 1)..sol : v \notin locked})
    ELSE Cardinality({v \in (cur + 1)..9 : v \notin locked}) + 1
         + Cardinality({v \in 1..sol : v \notin locked})

\* Steps on the 9-ring from a to b, the shorter way round
RingDist(a, b) == Min((a - b) % 9, (b - a) % 9)

\* Moves from the cursor to the nearest cell yet to be set right
MoveDist(st) ==
    LET ds == {RingDist(st.cursor_y, k \div 9) + RingDist(st.cursor_x, k % 9) : k \in WrongCells(st)}
    IN  CHOOSE d \in ds : \A e \in ds : d <= e

\* Commands still needed at the cursor cell (0 when it is not to be set)
CursorDist(st) ==
    IF Wrong(st, st.cursor_y, st.cursor_x)
    THEN CycleDist(st.board[st.cursor_y][st.cursor_x], st.solution[st.cursor_y][st.cursor_x],
                   Locked(st, st.cursor_y, st.cursor_x))
    ELSE 0

\* t is nearer to completion than st: fewer cells to set, or as many and the
\* cursor nearer to one, or the cursor on one and fewer cycle commands to go
Nearer(t, st) ==
    LET a == Cardinality(WrongCells(t))
        b == Cardinality(WrongCells(st))
    IN  \/ a < b
        \/ a = b /\ MoveDist(t) < MoveDist(st)
        \/ a = b /\ MoveDist(t) = 0 /\ MoveDist(st) = 0 /\ CursorDist(t) < CursorDist(st)

\* The commands "move" and "cycle" as button presses
Commands == {[pressed |-> {b}, held |-> {}] : b \in {"UP", "DOWN", "A", "C", "B"}}

\* Some command ends the game or takes the session nearer to completion
CanAdvance ==
    \E in \in Commands :
        \E w \in {update([World EXCEPT !.ticks = ticks + FrameMs], in)} :
            \/ w.state.screen = "gameover"
            \/ w.state.screen = "play" /\ Nearer(w.state, state)

\* A cycle command on a cell yet to be set right takes it one command nearer to
\* the correct value (and ends the game when it sets the last such cell)
CycleAdvances ==
    Wrong(state, state.cursor_y, state.cursor_x) =>
        \E w \in {update([World EXCEPT !.ticks = ticks + FrameMs], [pressed |-> {"B"}, held |-> {}])} :
            /\ CursorDist(w.state) = CursorDist(state) - 1
            /\ w.state.screen = "gameover" <=> WrongCells(w.state) = {}

\* C20: in play the solution's value of a non-given cell is never among the
\* locked values of the cell; at the cursor cell the correct value is at most
\* 10 cycle commands away from any current value; and some move or cycle
\* command always ends the game or brings the session nearer to its end, so a
\* sequence of moves and cycle commands reaches gameover.
C20_CorrectValueNeverLocked ==
    state.screen = "play" =>
        /\ \A k \in 0..80 :
               ~At(state.given, k) => At(state.solution, k) \notin Locked(state, k \div 9, k % 9)
        /\ ~CursorGiven(state) =>
               \A cur \in 0..9 :
                   CycleDist(cur, state.solution[state.cursor_y][state.cursor_x],
                             Locked(state, state.cursor_y, state.cursor_x)) \in 0..10
        /\ CycleAdvances
        /\ CanAdvance

\* The cursor is on a cell that holds a wrong value above the correct one: the
\* round has to pass through 0 to reach it.
C20_Witness ==
    /\ state.screen = "play"
    /\ ~CursorGiven(state)
    /\ last.op = "cycle"
    /\ state.board[state.cursor_y][state.cursor_x] > state.solution[state.cursor_y][state.cursor_x]
    /\ Locked(state, state.cursor_y, state.cursor_x) # {}
====
